---- MODULE Spec2Model ----
(***************************************************************************)
(* Model of waveform_mcp/server.py: the waveform cache, the tool handlers  *)
(* and the call_tool dispatcher.                                           *)
(*                                                                         *)
(* A handler of server.py holds no suspension point between its first and  *)
(* its last statement (the only await is on _load_waveform, which itself   *)
(* never yields), so one handler call is one action.                       *)
(*                                                                         *)
(* The WAL library (TraceContainer, SEval, read_wal_sexpr) is the external *)
(* collaborator.  It is modelled by what the server relies on: load,       *)
(* signals, signal_width, signal_value, step(n) relative to the current    *)
(* index, (length (find true)), and the evaluation of the expressions the  *)
(* requests carry: a value, or an error whose text is an input.            *)
(*                                                                         *)
(* Spec is the server on the library as it behaves: load raises for a file *)
(* it cannot parse, and no other call raises.  FaultSpec adds the failures *)
(* the server's except clauses provide for: one call of the collaborator   *)
(* per request may raise; which one is an input of the request (Fault).    *)
(***************************************************************************)
EXTENDS Integers, Sequences, FiniteSets, TLC

\* ------------------------------------------------------------------ bounds
\* number of time steps of the counter trace (indices 0 .. LenCounter-1)
LenCounter == 3
\* number of time steps of the data trace, whose values Init chooses freely
LenData == 3
\* largest start_time / end_time a request names
MaxTime == 3
\* largest loop iteration at which a stepping fault is injected
MaxFaultIter == 2
\* time steps of the trace that holds no signal
LenEmpty == 6

\* ------------------------------------------------------ the files on disk
CounterFile == "counter.vcd"
DataFile == "data.vcd"
EmptyFile == "empty.vcd"
MissingFile == "missing.vcd"
Paths == {CounterFile, DataFile, EmptyFile, MissingFile}
\* the files the external loader can parse
Loadable == {CounterFile, DataFile, EmptyFile}
\* a second spelling of the path of empty.vcd
AliasFile == "./empty.vcd"
\* the file that opening a path reaches
FileOf(path) == IF path = AliasFile THEN EmptyFile ELSE path
\* the strings a request may pass as waveform_file: the keys of the cache
Spellings == Paths \cup {AliasFile}

\* "no value": an absent argument, an absent cache entry
Absent == "<absent>"
\* a handle names a TraceContainer object: the n-th one created for its file
Handle(file, n) == [file |-> file, n |-> n]
NoHandle == Handle(Absent, 0)

VARIABLES
    waveform_cache, \* _waveform_cache: path -> handle (NoHandle: no entry)
    heap,           \* the TraceContainer objects ever created: handle -> object
    data,           \* the values of signal top.data in data.vcd, by time
    call,           \* the last request: handler, arguments, injected fault
    pre,            \* the cache, the heap and failed as they were when it began
    out,            \* what it returned or raised
    failed,         \* the paths for which the external loader has raised
    tasks,          \* the requests in flight on the event loop, statement by statement
    running         \* the task that holds the event loop (NoTask: none)

vars == <<waveform_cache, heap, data, call, pre, out, failed, tasks, running>>

\* ------------------------------------------------- the external collaborator
\* TraceContainer.signals: the trace's signal names in enumeration order
TraceSignals(file) ==
    IF file = CounterFile THEN <<"tb.clk", "tb.reset", "tb.dut.counter">>
    ELSE IF file = DataFile THEN <<"top.data", "top.Clk_count">>
    ELSE <<>>

\* name in container.signals
IsSignal(file, name) == \E i \in 1..Len(TraceSignals(file)) : TraceSignals(file)[i] = name

\* TraceContainer.signal_width(name)
TraceWidth(file, name) ==
    IF name \in {"tb.dut.counter", "top.Clk_count"} THEN 4 ELSE 1

\* number of time steps of the trace: what (length (find true)) evaluates to
TraceLength(file) ==
    IF file = CounterFile THEN LenCounter
    ELSE IF file = DataFile THEN LenData
    ELSE LenEmpty

\* the value of a signal at absolute time t (0-based)
TraceValue(d, file, name, t) ==
    IF name = "tb.clk" THEN t % 2
    ELSE IF name = "tb.reset" THEN (IF t = 0 THEN 1 ELSE 0)
    ELSE IF name = "tb.dut.counter" THEN (t \div 2) % 16
    ELSE IF name = "top.data" THEN d[t + 1]
    ELSE t % 16

\* TraceContainer.step(n): the index moves by n relative to where it is; a
\* step that would leave the trace moves nothing and raises nothing
StepIndex(file, index, n) ==
    IF index + n >= 0 /\ index + n < TraceLength(file) THEN index + n ELSE index

\* a fresh TraceContainer after load(file): index 0
NewContainer(file) == [file |-> file, index |-> 0]

\* the handle of the next TraceContainer() made for file, and the heap with it
NewHandle(hp, file) == Handle(file, 1 + Cardinality({h \in DOMAIN hp : h.file = file}))

Allocate(hp, file) == hp @@ (NewHandle(hp, file) :> NewContainer(file))

\* ---------------------------------------------------------- results, text
\* one line of a report: the f-string's fixed text and the values put in it
Line(fmt, val) == [fmt |-> fmt, val |-> val]

\* the outcome of a handler: it returns one TextContent (text: its lines) or
\* raises.  loads counts the calls of the external loader it made, steps the
\* step(1) calls of the scan loop, handle the container it worked on.
\* hit: the injected fault was reached (the call it names raised); stuck:
\* some step call would have left the trace and moved nothing.
Ghost(loads, steps, handle, hit, stuck) ==
    [loads |-> loads, steps |-> steps, handle |-> handle, hit |-> hit,
     stuck |-> stuck]

Returned(text, g) ==
    [raised |-> FALSE, exc |-> Absent, text |-> text,
     loads |-> g.loads, steps |-> g.steps, handle |-> g.handle,
     hit |-> g.hit, stuck |-> g.stuck]

Raised(exc, g) ==
    [raised |-> TRUE, exc |-> exc, text |-> <<>>,
     loads |-> g.loads, steps |-> g.steps, handle |-> g.handle,
     hit |-> g.hit, stuck |-> g.stuck]

\* the fault injected into a request: which external call raises
Fault(at, k) == [at |-> at, k |-> k]
NoFault == Fault("none", 0)

\* ------------------------------------------------------------ _load_waveform
\* the mutant: the cache test is dropped, every call loads anew
load_waveform_always(cache, hp, waveform_file) ==
    IF waveform_file \in Loadable
    THEN [raised |-> FALSE, loads |-> 1, handle |-> NewHandle(hp, waveform_file),
          cache |-> [cache EXCEPT ![waveform_file] = NewHandle(hp, waveform_file)],
          heap |-> Allocate(hp, waveform_file)]
    ELSE [raised |-> TRUE, loads |-> 1, handle |-> NoHandle,
          cache |-> cache, heap |-> hp]

\* the mutant: the entry is stored before the file is loaded
load_waveform_early(cache, hp, waveform_file) ==
    IF cache[waveform_file] # NoHandle
    THEN [raised |-> FALSE, loads |-> 0, handle |-> cache[waveform_file],
          cache |-> cache, heap |-> hp]
    ELSE [raised |-> waveform_file \notin Loadable, loads |-> 1,
          handle |-> IF waveform_file \in Loadable THEN NewHandle(hp, waveform_file) ELSE NoHandle,
          cache |-> [cache EXCEPT ![waveform_file] = NewHandle(hp, waveform_file)],
          heap |-> Allocate(hp, waveform_file)]

\* _load_waveform(waveform_file): the cached container, or a new one that is
\* loaded and then stored; container.load raising leaves the cache alone
load_waveform(cache, hp, waveform_file) ==
    IF cache[waveform_file] # NoHandle
    THEN [raised |-> FALSE, loads |-> 0, handle |-> cache[waveform_file],
          cache |-> cache, heap |-> hp]
    ELSE IF waveform_file \in Loadable
    THEN [raised |-> FALSE, loads |-> 1, handle |-> NewHandle(hp, waveform_file),
          cache |-> [cache EXCEPT ![waveform_file] = NewHandle(hp, waveform_file)],
          heap |-> Allocate(hp, waveform_file)]
    ELSE [raised |-> TRUE, loads |-> 1, handle |-> NoHandle,
          cache |-> cache, heap |-> hp]

\* ---------------------------------------------------------------- arguments
\* the arguments dictionary of a request: a key that is not in it is Absent
\* (AbsentTime for the two integer keys)
AbsentTime == -1

Args(waveform_file, signal_name, start_time, end_time, pattern) ==
    [waveform_file |-> waveform_file, signal_name |-> signal_name,
     start_time |-> start_time, end_time |-> end_time, pattern |-> pattern,
     expression |-> Absent, topic |-> Absent]

NoArgs == Args(Absent, Absent, AbsentTime, AbsentTime, Absent)

\* the arguments of execute_wal_expression and of get_wal_help
ExprArgs(waveform_file, expression) ==
    [NoArgs EXCEPT !.waveform_file = waveform_file, !.expression = expression]

HelpArgs(topic) == [NoArgs EXCEPT !.topic = topic]

\* args.get(key, default) for the integer keys
GetTime(v) == IF v = AbsentTime THEN 0 ELSE v

Request(tool, direct, args, fault) ==
    [tool |-> tool, direct |-> direct, args |-> args, fault |-> fault]

\* no request is being served
Idle == Request("none", TRUE, NoArgs, NoFault)

\* what a handler hands back: the cache, the heap and its outcome
Result(cache, hp, o) == [cache |-> cache, heap |-> hp, out |-> o]

\* --------------------------------------------------------- python's re module
\* the characters of the strings the model searches in and compiles
Chars(s) ==
    CASE s = "tb.clk" -> <<"t", "b", ".", "c", "l", "k">>
      [] s = "tb.reset" -> <<"t", "b", ".", "r", "e", "s", "e", "t">>
      [] s = "tb.dut.counter" ->
            <<"t", "b", ".", "d", "u", "t", ".", "c", "o", "u", "n", "t", "e", "r">>
      [] s = "top.data" -> <<"t", "o", "p", ".", "d", "a", "t", "a">>
      [] s = "top.Clk_count" ->
            <<"t", "o", "p", ".", "C", "l", "k", "_", "c", "o", "u", "n", "t">>
      [] s = "tb\\.dut" -> <<"t", "b", "\\", ".", "d", "u", "t">>
      [] s = ".c" -> <<".", "c">>
      [] s = "^top" -> <<"^", "t", "o", "p">>
      [] s = "t$" -> <<"t", "$">>
      [] s = "[" -> <<"[">>
      [] s = "tb\\" -> <<"t", "b", "\\">>
      [] s = "nonexistent" ->
            <<"n", "o", "n", "e", "x", "i", "s", "t", "e", "n", "t">>
      [] s = "clk" ->
            <<"c", "l", "k">>
      [] s = "reset" ->
            <<"r", "e", "s", "e", "t">>
      [] s = "rst" ->
            <<"r", "s", "t">>
      [] s = "counter" ->
            <<"c", "o", "u", "n", "t", "e", "r">>
      [] s = "count" ->
            <<"c", "o", "u", "n", "t">>
      [] s = "undefined" ->
            <<"u", "n", "d", "e", "f", "i", "n", "e", "d">>
      [] s = "argument must be a list" ->
            <<"a", "r", "g", "u", "m", "e", "n", "t", " ", "m", "u", "s",
              "t", " ", "b", "e", " ", "a", " ", "l", "i", "s", "t">>
      [] s = "Unexpected EOF" ->
            <<"U", "n", "e", "x", "p", "e", "c", "t", "e", "d", " ", "E",
              "O", "F">>
      [] s = "Undefined symbol" ->
            <<"U", "n", "d", "e", "f", "i", "n", "e", "d", " ", "s", "y",
              "m", "b", "o", "l">>
      [] s = "Argument must be a list" ->
            <<"A", "r", "g", "u", "m", "e", "n", "t", " ", "m", "u", "s",
              "t", " ", "b", "e", " ", "a", " ", "l", "i", "s", "t">>
      [] s = "undefined: argument must be a list" ->
            <<"u", "n", "d", "e", "f", "i", "n", "e", "d", ":", " ", "a",
              "r", "g", "u", "m", "e", "n", "t", " ", "m", "u", "s", "t",
              " ", "b", "e", " ", "a", " ", "l", "i", "s", "t">>
      [] OTHER -> <<>>

\* re.compile on the pattern's characters from position i: a sequence of
\* items (a literal character, "." any character, "^" / "$" the anchors), or
\* the error of an unterminated character set
RECURSIVE Compile(_, _)
Compile(pc, i) ==
    IF i > Len(pc) THEN [ok |-> TRUE, items |-> <<>>, msg |-> Absent]
    ELSE IF pc[i] = "["
    THEN [ok |-> FALSE, items |-> <<>>, msg |-> "unterminated character set"]
    ELSE IF pc[i] = "\\" /\ i = Len(pc)
    THEN [ok |-> FALSE, items |-> <<>>, msg |-> "bad escape (end of pattern)"]
    ELSE LET esc == pc[i] = "\\"
             item == IF esc THEN [kind |-> "lit", ch |-> pc[i + 1]]
                     ELSE IF pc[i] = "." THEN [kind |-> "any", ch |-> "."]
                     ELSE IF pc[i] = "^" THEN [kind |-> "bol", ch |-> "^"]
                     ELSE IF pc[i] = "$" THEN [kind |-> "eol", ch |-> "$"]
                     ELSE [kind |-> "lit", ch |-> pc[i]]
             rest == Compile(pc, IF esc THEN i + 2 ELSE i + 1)
         IN [ok |-> rest.ok, items |-> <<item>> \o rest.items, msg |-> rest.msg]

\* whether the items from item j on match the text from position i on
RECURSIVE MatchAt(_, _, _, _)
MatchAt(items, j, tc, i) ==
    IF j > Len(items) THEN TRUE
    ELSE IF items[j].kind = "bol" THEN i = 1 /\ MatchAt(items, j + 1, tc, i)
    ELSE IF items[j].kind = "eol" THEN i = Len(tc) + 1 /\ MatchAt(items, j + 1, tc, i)
    ELSE /\ i <= Len(tc)
         /\ items[j].kind = "any" \/ items[j].ch = tc[i]
         /\ MatchAt(items, j + 1, tc, i + 1)

\* regex.search(s): the pattern matches somewhere in s
Search(items, s) ==
    \E i \in 1..(Len(Chars(s)) + 1) : MatchAt(items, 1, Chars(s), i)

\* the mutant: match at the start of the name only (re.match)
Search_match(items, s) == MatchAt(items, 1, Chars(s), 1)

\* ------------------------------------------------------------ python's str
Upper == <<"A", "B", "C", "D", "E", "F", "G", "H", "I", "J", "K", "L", "M",
           "N", "O", "P", "Q", "R", "S", "T", "U", "V", "W", "X", "Y", "Z">>
Lower == <<"a", "b", "c", "d", "e", "f", "g", "h", "i", "j", "k", "l", "m",
           "n", "o", "p", "q", "r", "s", "t", "u", "v", "w", "x", "y", "z">>

\* s.lower(), on the characters of s
lower(tc) ==
    [i \in 1..Len(tc) |->
        IF \E j \in 1..26 : Upper[j] = tc[i]
        THEN Lower[CHOOSE j \in 1..26 : Upper[j] = tc[i]]
        ELSE tc[i]]

\* s.title() of a help topic: its first letter in upper case
title(topic) ==
    CASE topic = "overview" -> "Overview"
      [] topic = "functions" -> "Functions"
      [] topic = "examples" -> "Examples"
      [] topic = "debugging" -> "Debugging"
      [] topic = "syntax" -> "Syntax"
      [] OTHER -> topic

\* needle in s, on characters
In(needle, tc) ==
    \E i \in 0..(Len(tc) - Len(needle)) :
        \A j \in 1..Len(needle) : tc[i + j] = needle[j]

\* needle in s.lower()
InLower(needle, s) == In(Chars(needle), lower(Chars(s)))

\* ------------------------------------------------------------ _get_signal_list
\* the lines " name [width bit(s)]" of the signals from the k-th on; the k-th
\* signal_width call raising ends the handler
RECURSIVE SignalLines(_, _, _, _)
SignalLines(file, sigs, k, fault) ==
    IF k > Len(sigs) THEN [raised |-> FALSE, lines |-> <<>>]
    ELSE IF fault = Fault("width", k) THEN [raised |-> TRUE, lines |-> <<>>]
    ELSE LET width == TraceWidth(file, sigs[k])
             bit_word == IF width = 1 THEN "bit" ELSE "bits"
             rest == SignalLines(file, sigs, k + 1, fault)
         IN [raised |-> rest.raised,
             lines |-> <<Line("  {} [{} {}]", <<sigs[k], width, bit_word>>)>> \o rest.lines]

\* the mutant: the kept signals come out in reverse enumeration order
RECURSIVE Filter_reordered(_, _, _)
Filter_reordered(items, sigs, k) ==
    IF k > Len(sigs) THEN <<>>
    ELSE Filter_reordered(items, sigs, k + 1) \o (IF Search(items, sigs[k]) THEN <<sigs[k]>> ELSE <<>>)

\* [s for s in all_signals if regex.search(s)]
RECURSIVE Filter(_, _, _)
Filter(items, sigs, k) ==
    IF k > Len(sigs) THEN <<>>
    ELSE (IF Search(items, sigs[k]) THEN <<sigs[k]>> ELSE <<>>) \o Filter(items, sigs, k + 1)

\* the mutant: the enumeration starts at the container's index
container_signals_from_index(container) ==
    SubSeq(TraceSignals(container.file), container.index + 1,
           Len(TraceSignals(container.file)))

\* container.signals
container_signals(container) == TraceSignals(container.file)

\* the mutant: the report of a pattern error does not quote the pattern
PatternError_bare(waveform_file, pattern, msg) ==
    <<Line("Signals in {}:", <<waveform_file>>),
      Line("Invalid regex pattern: {}", <<msg>>),
      Line("Please provide a valid regex pattern.", <<>>)>>

\* except re.error as e: the report that replaces result_lines
PatternError(waveform_file, pattern, msg) ==
    <<Line("Signals in {}:", <<waveform_file>>),
      Line("Invalid regex pattern '{}': {}", <<pattern, msg>>),
      Line("Please provide a valid regex pattern.", <<>>)>>

get_signal_list(cache, hp, args, fault) ==
    IF args.waveform_file = Absent
    THEN Result(cache, hp, Raised("'waveform_file'", Ghost(0, 0, NoHandle, FALSE, FALSE)))
    ELSE
    LET waveform_file == args.waveform_file
        pattern == IF args.pattern = Absent THEN "" ELSE args.pattern
        ld == load_waveform(cache, hp, waveform_file)
        g == Ghost(ld.loads, 0, ld.handle, FALSE, FALSE)
    IN
    IF ld.raised THEN Result(ld.cache, ld.heap, Raised("load failed", g))
    ELSE
    LET all_signals == container_signals(ld.heap[ld.handle])
        regex == Compile(Chars(pattern), 1)
        head == <<Line("Signals in {}:", <<waveform_file>>)>>
    IN
    IF pattern # "" /\ ~regex.ok
    THEN Result(ld.cache, ld.heap, Returned(PatternError(waveform_file, pattern, regex.msg), g))
    ELSE
    LET filtered_signals == IF pattern # "" THEN Filter(regex.items, all_signals, 1)
                            ELSE all_signals
        sl == SignalLines(waveform_file, filtered_signals, 1, fault)
        gh == [g EXCEPT !.hit = sl.raised]
        filt == IF pattern # "" THEN <<Line("Filter pattern: {}", <<pattern>>)>> ELSE <<>>
        none == IF filtered_signals # <<>> THEN <<>>
                ELSE IF pattern # ""
                THEN <<Line("  No signals found matching regex pattern.", <<>>)>>
                ELSE <<Line("  No signals found in waveform file.", <<>>)>>
    IN
    IF sl.raised THEN Result(ld.cache, ld.heap, Raised("width failed", gh))
    ELSE Result(ld.cache, ld.heap, Returned(head \o filt \o sl.lines \o none, gh))

\* ------------------------------------------------------ _get_signal_transitions
\* the state of the scan loop: the container's index, current_time,
\* prev_value, the transition lines so far, the step(1) calls made
Loop(index, current_time, prev_value, transitions, steps, hit, stuck) ==
    [index |-> index, current_time |-> current_time, prev_value |-> prev_value,
     transitions |-> transitions, steps |-> steps, hit |-> hit, stuck |-> stuck]

\* the mutant: the loop runs while current_time <= actual_end_time
RECURSIVE ScanLoop_inclusive(_, _, _, _, _, _)
ScanLoop_inclusive(d, file, signal_name, actual_end_time, fault, s) ==
    IF ~(s.current_time <= actual_end_time) THEN s
    ELSE
    LET k == s.steps + 1 IN
    IF fault = Fault("step", k) THEN [s EXCEPT !.steps = k, !.hit = TRUE]
    ELSE
    LET index == StepIndex(file, s.index, 1)
        stuck == s.stuck \/ index = s.index
        current_time == s.current_time + 1
    IN
    IF fault = Fault("read", k)
    THEN Loop(index, current_time, s.prev_value, s.transitions, k, TRUE, stuck)
    ELSE
    LET curr_value == TraceValue(d, file, signal_name, index)
        transitions ==
            IF s.prev_value # curr_value
            THEN Append(s.transitions,
                        Line("  Time {}: {} -> {}", <<current_time, s.prev_value, curr_value>>))
            ELSE s.transitions
    IN ScanLoop_inclusive(d, file, signal_name, actual_end_time, fault,
                Loop(index, current_time, curr_value, transitions, k, s.hit, stuck))

\* the mutant: prev_value is not updated after a step
RECURSIVE ScanLoop_stale(_, _, _, _, _, _)
ScanLoop_stale(d, file, signal_name, actual_end_time, fault, s) ==
    IF ~(s.current_time < actual_end_time) THEN s
    ELSE
    LET k == s.steps + 1 IN
    IF fault = Fault("step", k) THEN [s EXCEPT !.steps = k, !.hit = TRUE]
    ELSE
    LET index == StepIndex(file, s.index, 1)
        stuck == s.stuck \/ index = s.index
        current_time == s.current_time + 1
    IN
    IF fault = Fault("read", k)
    THEN Loop(index, current_time, s.prev_value, s.transitions, k, TRUE, stuck)
    ELSE
    LET curr_value == TraceValue(d, file, signal_name, index)
        transitions ==
            IF s.prev_value # curr_value
            THEN Append(s.transitions,
                        Line("  Time {}: {} -> {}", <<current_time, s.prev_value, curr_value>>))
            ELSE s.transitions
    IN ScanLoop_stale(d, file, signal_name, actual_end_time, fault,
                Loop(index, current_time, s.prev_value, transitions, k, s.hit, stuck))

\* the mutant: an exception in the loop body discards the transitions
RECURSIVE ScanLoop_losing(_, _, _, _, _, _)
ScanLoop_losing(d, file, signal_name, actual_end_time, fault, s) ==
    IF ~(s.current_time < actual_end_time) THEN s
    ELSE
    LET k == s.steps + 1 IN
    IF fault = Fault("step", k) THEN [s EXCEPT !.steps = k, !.hit = TRUE, !.transitions = <<>>]
    ELSE
    LET index == StepIndex(file, s.index, 1)
        stuck == s.stuck \/ index = s.index
        current_time == s.current_time + 1
    IN
    IF fault = Fault("read", k)
    THEN Loop(index, current_time, s.prev_value, <<>>, k, TRUE, stuck)
    ELSE
    LET curr_value == TraceValue(d, file, signal_name, index)
        transitions ==
            IF s.prev_value # curr_value
            THEN Append(s.transitions,
                        Line("  Time {}: {} -> {}", <<current_time, s.prev_value, curr_value>>))
            ELSE s.transitions
    IN ScanLoop_losing(d, file, signal_name, actual_end_time, fault,
                Loop(index, current_time, curr_value, transitions, k, s.hit, stuck))

\* while current_time < actual_end_time: step(1), current_time += 1, read the
\* value, append a line if it differs from prev_value; an exception in the
\* body breaks out of the loop
RECURSIVE ScanLoop(_, _, _, _, _, _)
ScanLoop(d, file, signal_name, actual_end_time, fault, s) ==
    IF ~(s.current_time < actual_end_time) THEN s
    ELSE
    LET k == s.steps + 1 IN
    IF fault = Fault("step", k) THEN [s EXCEPT !.steps = k, !.hit = TRUE]
    ELSE
    LET index == StepIndex(file, s.index, 1)
        stuck == s.stuck \/ index = s.index
        current_time == s.current_time + 1
    IN
    IF fault = Fault("read", k)
    THEN Loop(index, current_time, s.prev_value, s.transitions, k, TRUE, stuck)
    ELSE
    LET curr_value == TraceValue(d, file, signal_name, index)
        transitions ==
            IF s.prev_value # curr_value
            THEN Append(s.transitions,
                        Line("  Time {}: {} -> {}", <<current_time, s.prev_value, curr_value>>))
            ELSE s.transitions
    IN ScanLoop(d, file, signal_name, actual_end_time, fault,
                Loop(index, current_time, curr_value, transitions, k, s.hit, stuck))

\* the mutant: an unspecified end is taken to be the length, not length - 1
ActualEnd_length(file, end_time) ==
    IF end_time = 0 THEN TraceLength(file) ELSE end_time

\* actual_end_time: end_time, or the trace's length - 1 when end_time is 0
ActualEnd(file, end_time) ==
    IF end_time = 0 THEN TraceLength(file) - 1 ELSE end_time

\* the mutant: a range that runs backwards is refused
RangeLines_refusing(start_time, end_time, actual_end_time, current_time) ==
    IF start_time > actual_end_time
    THEN <<Line("  Error during transition detection: {}", <<"invalid range">>)>>
    ELSE <<Line("", <<>>),
           Line("Time range analyzed: {} to {}",
                <<start_time, IF end_time = 0 THEN actual_end_time ELSE end_time>>),
           Line("Total time steps checked: {}", <<current_time - start_time>>)>>

\* the mutant: the steps checked are the difference of the range's ends
RangeLines_difference(start_time, end_time, actual_end_time, current_time) ==
    <<Line("", <<>>),
      Line("Time range analyzed: {} to {}",
           <<start_time, IF end_time = 0 THEN actual_end_time ELSE end_time>>),
      Line("Total time steps checked: {}", <<actual_end_time - start_time>>)>>

\* the last three lines of a scan's report
RangeLines(start_time, end_time, actual_end_time, current_time) ==
    <<Line("", <<>>),
      Line("Time range analyzed: {} to {}",
           <<start_time, IF end_time = 0 THEN actual_end_time ELSE end_time>>),
      Line("Total time steps checked: {}", <<current_time - start_time>>)>>

\* the mutant: the signal is looked up after the container was positioned
NotFound_late(hp, handle, signal_name, start_time) ==
    [found |-> \E i \in 1..Len(TraceSignals(hp[handle].file)) :
                    TraceSignals(hp[handle].file)[i] = signal_name,
     heap |-> [hp EXCEPT ![handle].index = StepIndex(hp[handle].file, @, start_time)]]

\* signal_name not in container.signals, and the heap as the test leaves it
NotFound(hp, handle, signal_name, start_time) ==
    [found |-> \E i \in 1..Len(TraceSignals(hp[handle].file)) :
                    TraceSignals(hp[handle].file)[i] = signal_name,
     heap |-> hp]

get_signal_transitions(d, cache, hp, args, fault) ==
    IF args.waveform_file = Absent
    THEN Result(cache, hp, Raised("'waveform_file'", Ghost(0, 0, NoHandle, FALSE, FALSE)))
    ELSE IF args.signal_name = Absent
    THEN Result(cache, hp, Raised("'signal_name'", Ghost(0, 0, NoHandle, FALSE, FALSE)))
    ELSE
    LET waveform_file == args.waveform_file
        signal_name == args.signal_name
        start_time == GetTime(args.start_time)
        end_time == GetTime(args.end_time)
        ld == load_waveform(cache, hp, waveform_file)
        g == Ghost(ld.loads, 0, ld.handle, FALSE, FALSE)
    IN
    IF ld.raised THEN Result(ld.cache, ld.heap, Raised("load failed", g))
    ELSE
    LET lookup == NotFound(ld.heap, ld.handle, signal_name, start_time) IN
    IF ~lookup.found
    THEN Result(ld.cache, lookup.heap, Returned(
            <<Line("Error: Signal '{}' not found in {}", <<signal_name, waveform_file>>)>>, g))
    ELSE IF fault = Fault("width", 1)
    THEN Result(ld.cache, lookup.heap, Raised("width failed", [g EXCEPT !.hit = TRUE]))
    ELSE
    LET file == lookup.heap[ld.handle].file
        width == TraceWidth(file, signal_name)
        bit_word == IF width = 1 THEN "bit" ELSE "bits"
        head == <<Line("Signal analysis for '{}':", <<signal_name>>),
                  Line("  Width: {} {}", <<width, bit_word>>)>>
        report_error(msg) == head \o <<Line("  Error during transition detection: {}", <<msg>>)>>
    IN
    IF end_time = 0 /\ fault = Fault("length", 0)
    THEN Result(ld.cache, lookup.heap, Returned(report_error("eval failed"), [g EXCEPT !.hit = TRUE]))
    ELSE IF fault = Fault("position", 0)
    THEN Result(ld.cache, lookup.heap, Returned(report_error("step failed"), [g EXCEPT !.hit = TRUE]))
    ELSE
    LET actual_end_time == ActualEnd(file, end_time)
        index0 == lookup.heap[ld.handle].index
        index == StepIndex(file, index0, start_time)
        stuck == start_time # 0 /\ index = index0
        positioned == [lookup.heap EXCEPT ![ld.handle].index = index]
    IN
    IF fault = Fault("initial", 0)
    THEN Result(ld.cache, positioned,
                Returned(report_error("value failed"), [g EXCEPT !.hit = TRUE, !.stuck = stuck]))
    ELSE
    LET prev_value == TraceValue(d, file, signal_name, index)
        s == ScanLoop(d, file, signal_name, actual_end_time, fault,
                      Loop(index, start_time, prev_value, <<>>, 0, FALSE, stuck))
        found == IF s.transitions # <<>>
                 THEN <<Line("", <<>>), Line("Transitions detected:", <<>>)>> \o s.transitions
                 ELSE <<Line("", <<>>), Line("No transitions detected in time range.", <<>>)>>
    IN Result(ld.cache, [positioned EXCEPT ![ld.handle].index = s.index],
              Returned(head \o <<Line("  Initial value at time {}: {}", <<start_time, prev_value>>)>>
                            \o found
                            \o RangeLines(start_time, end_time, actual_end_time, s.current_time),
                       Ghost(ld.loads, s.steps, ld.handle, s.hit, s.stuck)))

\* ---------------------------------------------------------- _get_waveform_length
get_waveform_length(cache, hp, args, fault) ==
    IF args.waveform_file = Absent
    THEN Result(cache, hp, Raised("'waveform_file'", Ghost(0, 0, NoHandle, FALSE, FALSE)))
    ELSE
    LET waveform_file == args.waveform_file
        ld == load_waveform(cache, hp, waveform_file)
        g == Ghost(ld.loads, 0, ld.handle, FALSE, FALSE)
    IN
    IF ld.raised THEN Result(ld.cache, ld.heap, Raised("load failed", g))
    ELSE IF fault = Fault("length", 0)
    THEN Result(ld.cache, ld.heap, Returned(
            <<Line("Waveform file: {}", <<waveform_file>>),
              Line("Error getting waveform length: {}", <<"eval failed">>)>>,
            [g EXCEPT !.hit = TRUE]))
    ELSE
    LET waveform_length == TraceLength(ld.heap[ld.handle].file) IN
    Result(ld.cache, ld.heap, Returned(
            <<Line("Waveform file: {}", <<waveform_file>>),
              Line("Length: {} time steps", <<waveform_length>>),
              Line("Time range: 0 to {}", <<waveform_length - 1>>),
              Line("Method: WAL (length (find true))", <<>>)>>, g))

\* ------------------------------------------------------- _execute_wal_expression
\* the expressions the requests carry: two that evaluate, one that
\* read_wal_sexpr rejects, one that names no signal of any trace
ClkHighCount == "(length (find (= tb.clk 1)))"
FindTrue == "(find true)"
Unclosed == "(count (= tb.clk 1)"
UndefinedName == "(find (= non_existent_signal 1))"

\* the texts str(e) of the errors the library raises
Messages ==
    <<"Unexpected EOF", "Undefined symbol", "Argument must be a list",
      "undefined: argument must be a list">>

\* the value an expression evaluates to: its python type and its elements
\* (an int has one)
Value(type, items) == [type |-> type, items |-> items]

\* the times 0..n-1 at which tb.clk is v
RECURSIVE FindClk(_, _, _, _)
FindClk(d, file, v, n) ==
    IF n = 0 THEN <<>>
    ELSE FindClk(d, file, v, n - 1)
         \o (IF TraceValue(d, file, "tb.clk", n - 1) = v THEN <<n - 1>> ELSE <<>>)

\* read_wal_sexpr(expression) and SEval(container).eval(parsed_expr): the
\* value, or the error raised; find visits every time and leaves the index
\* where it was
Evaluate(d, file, expression, fault) ==
    LET msg == Messages[IF fault.at \in {"message", "eval"} THEN fault.k ELSE 1]
        err == [raised |-> TRUE, msg |-> msg, value |-> Value("none", <<>>)]
        val(v) == [raised |-> FALSE, msg |-> Absent, value |-> v]
    IN IF fault.at = "eval" THEN err
       ELSE IF expression = Unclosed THEN err
       ELSE IF expression = UndefinedName THEN err
       ELSE IF expression = FindTrue
       THEN val(Value("list", [i \in 1..TraceLength(file) |-> i - 1]))
       ELSE IF IsSignal(file, "tb.clk")
       THEN val(Value("int", <<Len(FindClk(d, file, 1, TraceLength(file)))>>))
       ELSE err

\* signals[:n]
Take(sq, n) == SubSeq(sq, 1, IF Len(sq) < n THEN Len(sq) ELSE n)

\* _get_wal_error_suggestions(error_msg, signals); the bullet of the source's
\* lines is written "*"
get_wal_error_suggestions(error_msg, signals) ==
    LET undefined ==
            IF InLower("undefined", error_msg)
            THEN <<Line("Variable/function not found. Try:", <<>>),
                   Line("* Check signal names with SIGNALS", <<>>),
                   Line("* Use exact signal names from your waveform", <<>>),
                   Line("* Available signals: {}{}",
                        <<Take(signals, 5), IF Len(signals) > 5 THEN "..." ELSE "">>)>>
            ELSE <<>>
        not_a_list ==
            IF InLower("argument must be a list", error_msg)
            THEN <<Line("Function expects a list. Try:", <<>>),
                   Line("* (find condition) returns a list of time indices", <<>>),
                   Line("* (length (find condition)) to count matches", <<>>),
                   Line("* Use signal names directly: {}",
                        <<IF signals # <<>> THEN signals[1] ELSE "signal_name">>)>>
            ELSE <<>>
        suggestions == undefined \o not_a_list
        generic ==
            IF suggestions = <<>>
            THEN <<Line("Common WAL patterns to try:", <<>>),
                   Line("* SIGNALS - List all signal names", <<>>),
                   Line("* (find (= signal_name value)) - Find when signal equals value", <<>>),
                   Line("* (count condition) - Count occurrences", <<>>),
                   Line("* (length (find true)) - Total simulation length", <<>>)>>
            ELSE <<>>
        examples ==
            IF signals # <<>>
            THEN <<Line("", <<>>),
                   Line("Examples with your signals (using '{}'):", <<signals[1]>>),
                   Line("* (find (= {} 1)) - Find when {} is high", <<signals[1], signals[1]>>),
                   Line("* (count (= {} 0)) - Count when {} is low", <<signals[1], signals[1]>>),
                   Line("* (length (find (!= {} 0))) - Time steps when {} != 0",
                        <<signals[1], signals[1]>>)>>
            ELSE <<>>
    IN suggestions \o generic \o examples

\* the lines "  [i]: item" of the first elements of a long result
ElementLines(items) ==
    [i \in 1..Len(items) |-> Line("  [{}]: {}", <<i - 1, items[i]>>)]

execute_wal_expression(d, cache, hp, args, fault) ==
    IF args.waveform_file = Absent
    THEN Result(cache, hp, Raised("'waveform_file'", Ghost(0, 0, NoHandle, FALSE, FALSE)))
    ELSE IF args.expression = Absent
    THEN Result(cache, hp, Raised("'expression'", Ghost(0, 0, NoHandle, FALSE, FALSE)))
    ELSE
    LET waveform_file == args.waveform_file
        expression == args.expression
        ld == load_waveform(cache, hp, waveform_file)
        g == Ghost(ld.loads, 0, ld.handle, FALSE, FALSE)
    IN
    IF ld.raised THEN Result(ld.cache, ld.heap, Raised("load failed", g))
    ELSE
    LET file == ld.heap[ld.handle].file
        ev == Evaluate(d, file, expression, fault)
        result == ev.value
        head == <<Line("WAL Expression: {}", <<expression>>),
                  Line("Waveform file: {}", <<waveform_file>>),
                  Line("", <<>>)>>
    IN
    IF ev.raised
    THEN Result(ld.cache, ld.heap, Returned(
            head \o <<Line("Execution Error: {}", <<ev.msg>>), Line("", <<>>)>>
                 \o get_wal_error_suggestions(ev.msg, TraceSignals(file))
                 \o <<Line("", <<>>),
                      Line("For more help: use get_wal_help with topics 'examples', 'functions', or 'debugging'", <<>>)>>,
            [g EXCEPT !.hit = fault # NoFault]))
    ELSE Result(ld.cache, ld.heap, Returned(
            head \o <<Line("Result: {}", <<result>>),
                      Line("Result type: {}", <<result.type>>)>>
                 \o (IF result.type = "list" /\ Len(result.items) > 5
                     THEN <<Line("Result length: {}", <<Len(result.items)>>),
                            Line("First few elements:", <<>>)>>
                          \o ElementLines(Take(result.items, 5))
                          \o <<Line("  ... and {} more", <<Len(result.items) - 5>>)>>
                     ELSE <<>>),
            g))

\* ---------------------------------------------------------------- _get_wal_help
\* WAL_DOCUMENTATION.keys(), in the dictionary's order
Topics == <<"overview", "functions", "examples", "debugging", "syntax">>

\* WAL_DOCUMENTATION[topic].strip(), named by its first line
Content(topic) ==
    CASE topic = "overview" -> "WAL (Waveform Analysis Language) - Quick Reference"
      [] topic = "functions" -> "Core WAL Functions for Waveform Analysis:"
      [] topic = "examples" -> "WAL Usage Examples:"
      [] topic = "debugging" -> "Common WAL Debugging Patterns:"
      [] topic = "syntax" -> "WAL Syntax Reference:"

get_wal_help(cache, hp, args) ==
    LET topic == IF args.topic = Absent THEN "overview" ELSE args.topic
        g == Ghost(0, 0, NoHandle, FALSE, FALSE)
    IN
    IF ~\E i \in 1..Len(Topics) : Topics[i] = topic
    THEN Result(cache, hp, Returned(
            <<Line("Unknown topic '{}'. Available topics: {}", <<topic, Topics>>)>>, g))
    ELSE Result(cache, hp, Returned(
            <<Line("WAL Help - {}", <<title(topic)>>),
              Line("==================================================", <<>>),
              Line("{}", <<Content(topic)>>),
              Line("", <<>>),
              Line("Available topics: {}", <<Topics>>),
              Line("Use get_wal_help with different topic for more information.", <<>>)>>, g))

\* ------------------------------------------------------------ _get_wal_examples
IsClock(name) == InLower("clk", name)
IsReset(name) == InLower("reset", name) \/ InLower("rst", name)
IsCounter(name) == InLower("counter", name) \/ InLower("count", name)

\* name in sigs
Member(name, sigs) == \E i \in 1..Len(sigs) : sigs[i] = name

get_wal_examples(cache, hp, args) ==
    IF args.waveform_file = Absent
    THEN Result(cache, hp, Raised("'waveform_file'", Ghost(0, 0, NoHandle, FALSE, FALSE)))
    ELSE
    LET waveform_file == args.waveform_file
        ld == load_waveform(cache, hp, waveform_file)
        g == Ghost(ld.loads, 0, ld.handle, FALSE, FALSE)
    IN
    IF ld.raised
    THEN Result(ld.cache, ld.heap,
                [Returned(<<Line("Error loading waveform {}: {}", <<waveform_file, "load failed">>),
                            Line("", <<>>),
                            Line("Use get_wal_help for general WAL documentation", <<>>)>>, g)
                 EXCEPT !.exc = "load failed"])
    ELSE
    LET all_signals == TraceSignals(ld.heap[ld.handle].file) IN
    IF all_signals = <<>>
    THEN Result(ld.cache, ld.heap, Returned(<<Line("No signals found in waveform file", <<>>)>>, g))
    ELSE
    LET clock_signals == SelectSeq(all_signals, IsClock)
        reset_signals == SelectSeq(all_signals, IsReset)
        counter_signals == SelectSeq(all_signals, IsCounter)
        IsData(name) == ~Member(name, clock_signals \o reset_signals \o counter_signals)
        data_signals == SelectSeq(all_signals, IsData)
        first == all_signals[1]
        last == all_signals[Len(all_signals)]
        clk == clock_signals[1]
        rst == reset_signals[1]
        cnt == counter_signals[1]
        sig1 == all_signals[1]
        sig2 == all_signals[2]
    IN Result(ld.cache, ld.heap, Returned(
        <<Line("WAL Examples for {}", <<waveform_file>>),
          Line("============================================================", <<>>),
          Line("Available signals: {} total", <<Len(all_signals)>>),
          Line("", <<>>),
          Line("BASIC SIGNAL ACCESS:", <<>>),
          Line("* SIGNALS - List all signals in waveform", <<>>),
          Line("* {} - Get current value of {}", <<first, first>>),
          Line("* INDEX - Current time index", <<>>),
          Line("* (length (find true)) - Total simulation length", <<>>),
          Line("", <<>>)>>
        \o (IF clock_signals # <<>>
            THEN <<Line("CLOCK ANALYSIS (using {}):", <<clk>>),
                   Line("* (find (= {} 1)) - Find all clock high times", <<clk>>),
                   Line("* (length (find (= {} 1))) - Count clock high periods", <<clk>>),
                   Line("* (step 0) (find (= {} 1)) - Go to start, find clock highs", <<clk>>),
                   Line("", <<>>)>>
            ELSE <<>>)
        \o (IF reset_signals # <<>>
            THEN <<Line("RESET ANALYSIS (using {}):", <<rst>>),
                   Line("* (find (= {} 1)) - Find reset assertion times", <<rst>>),
                   Line("* (find (= {} 0)) - Find reset deassertion times", <<rst>>),
                   Line("* (length (find (= {} 1))) - Total reset duration", <<rst>>),
                   Line("", <<>>)>>
            ELSE <<>>)
        \o (IF counter_signals # <<>>
            THEN <<Line("COUNTER ANALYSIS (using {}):", <<cnt>>),
                   Line("* (find (= {} 0)) - Find when counter is zero", <<cnt>>),
                   Line("* (find (> {} 10)) - Find when counter > 10", <<cnt>>),
                   Line("* (length (find (>= {} 1))) - Non-zero periods", <<cnt>>),
                   Line("", <<>>)>>
            ELSE <<>>)
        \o (IF Len(all_signals) >= 2
            THEN <<Line("MULTI-SIGNAL PATTERNS:", <<>>),
                   Line("* (find (&& (= {} 1) (= {} 0))) - {} high AND {} low",
                        <<sig1, sig2, sig1, sig2>>),
                   Line("* (find (|| (= {} 1) (= {} 1))) - Either signal high", <<sig1, sig2>>),
                   Line("* (find (&& (>= {} 1) (>= {} 1))) - Both signals non-zero",
                        <<sig1, sig2>>),
                   Line("", <<>>)>>
            ELSE <<>>)
        \o <<Line("DEBUGGING PATTERNS:", <<>>),
             Line("* (find (= overflow 1)) - Find overflow events (if overflow signal exists)", <<>>),
             Line("* (find (&& (= valid 1) (= ready 0))) - Handshake stalls (if protocol signals exist)", <<>>),
             Line("* (length (find (> {} 15))) - Values out of range (example: >15)", <<last>>),
             Line("", <<>>),
             Line("TIMING ANALYSIS:", <<>>),
             Line("* (step 0) INDEX - Go to start and show time", <<>>),
             Line("* (step 10) {} - Advance 10 steps and show signal value", <<first>>),
             Line("* (find (= {} target)) - Find specific signal values", <<first>>),
             Line("", <<>>),
             Line("For more help: use get_wal_help with topics 'functions', 'debugging', or 'syntax'", <<>>)>>,
        g))

\* ------------------------------------------------------------------ call_tool
\* the mutant: the handler's exception is not caught
call_tool_uncaught(d, cache, hp, tool_name, args, fault) ==
    IF tool_name = "get_signal_list" THEN get_signal_list(cache, hp, args, fault)
    ELSE IF tool_name = "get_signal_transitions"
    THEN get_signal_transitions(d, cache, hp, args, fault)
    ELSE IF tool_name = "get_waveform_length" THEN get_waveform_length(cache, hp, args, fault)
    ELSE IF tool_name = "execute_wal_expression"
    THEN execute_wal_expression(d, cache, hp, args, fault)
    ELSE IF tool_name = "get_wal_help" THEN get_wal_help(cache, hp, args)
    ELSE IF tool_name = "get_wal_examples" THEN get_wal_examples(cache, hp, args)
    ELSE Result(cache, hp, Returned(<<Line("Unknown tool: {}", <<tool_name>>)>>,
                                    Ghost(0, 0, NoHandle, FALSE, FALSE)))

\* call_tool(tool_name, arguments): the handler's report, "Unknown tool" for
\* a name that has no handler, "Error: ..." for an exception a handler raised
call_tool(d, cache, hp, tool_name, args, fault) ==
    LET r == IF tool_name = "get_signal_list" THEN get_signal_list(cache, hp, args, fault)
             ELSE IF tool_name = "get_signal_transitions"
             THEN get_signal_transitions(d, cache, hp, args, fault)
             ELSE IF tool_name = "get_waveform_length"
             THEN get_waveform_length(cache, hp, args, fault)
             ELSE IF tool_name = "execute_wal_expression"
             THEN execute_wal_expression(d, cache, hp, args, fault)
             ELSE IF tool_name = "get_wal_help" THEN get_wal_help(cache, hp, args)
             ELSE IF tool_name = "get_wal_examples" THEN get_wal_examples(cache, hp, args)
             ELSE Result(cache, hp, Returned(<<Line("Unknown tool: {}", <<tool_name>>)>>,
                                             Ghost(0, 0, NoHandle, FALSE, FALSE)))
    IN IF r.out.raised
       THEN Result(r.cache, r.heap,
                   [r.out EXCEPT !.raised = FALSE, !.text = <<Line("Error: {}", <<r.out.exc>>)>>])
       ELSE r

\* ------------------------------------------------------------------- serving
\* the server has served a request: the state the handler left, the request
\* and its outcome
Do(req, r) ==
    /\ waveform_cache' = r.cache
    /\ heap' = r.heap
    /\ call' = req
    /\ pre' = [cache |-> waveform_cache, heap |-> heap, failed |-> failed]
    /\ out' = r.out
    /\ failed' = IF r.out.exc = "load failed" THEN failed \cup {req.args.waveform_file}
                 ELSE failed
    /\ UNCHANGED <<data, tasks, running>>

\* the caller has taken the result; the server waits for the next request
Deliver ==
    /\ call # Idle
    /\ call' = Idle
    /\ pre' = [cache |-> waveform_cache, heap |-> heap, failed |-> failed]
    /\ out' = Returned(<<>>, Ghost(0, 0, NoHandle, FALSE, FALSE))
    /\ UNCHANGED <<waveform_cache, heap, data, failed, tasks, running>>

\* a fault is an input only where the request reaches the call it names
Reaches(fault, r) == fault = NoFault \/ r.out.hit

\* ---- the inputs the requests are drawn from
Patterns == {Absent, "", "tb\\.dut", ".c", "^top", "t$", "[", "tb\\", "nonexistent"}

ListArgs ==
    {Args(p, Absent, AbsentTime, AbsentTime, pat) : p \in Loadable, pat \in Patterns}
    \cup {Args(p, Absent, AbsentTime, AbsentTime, pat) : p \in {MissingFile, Absent}, pat \in {Absent, "["}}

ListFaults == {NoFault} \cup {Fault("width", k) : k \in 1..3}

\* the signals a scan is asked for: the trace's first, one it does not hold,
\* and none at all
ScanSignals(p) ==
    (IF TraceSignals(p) # <<>> THEN {TraceSignals(p)[1]} ELSE {}) \cup {"nonexistent", Absent}

ScanFaults ==
    {NoFault, Fault("width", 1), Fault("length", 0), Fault("position", 0), Fault("initial", 0)}
    \cup {Fault(at, k) : at \in {"step", "read"}, k \in 1..MaxFaultIter}

ScanArgs ==
    UNION {{Args(p, sig, s, e, Absent) : sig \in ScanSignals(p), s \in 0..MaxTime, e \in 0..MaxTime}
           : p \in Loadable}
    \cup {Args(p, TraceSignals(p)[1], AbsentTime, AbsentTime, Absent)
           : p \in {q \in Loadable : TraceSignals(q) # <<>>}}
    \cup {Args(MissingFile, sig, AbsentTime, AbsentTime, Absent) : sig \in {"tb.clk", Absent}}
    \cup {Args(Absent, "tb.clk", 0, 0, Absent)}

LengthArgs == {Args(p, Absent, AbsentTime, AbsentTime, Absent) : p \in Paths \cup {Absent}}

LengthFaults == {NoFault, Fault("length", 0)}

\* the expressions asked of every trace, and the requests that lack a file
\* or an expression
ExprArgs_all ==
    {ExprArgs(p, e) : p \in Loadable, e \in {ClkHighCount, FindTrue, Unclosed, UndefinedName}}
    \cup {ExprArgs(p, ClkHighCount) : p \in {MissingFile, Absent}}
    \cup {ExprArgs(CounterFile, Absent)}

\* a "message" fault injects nothing: it is the text the library gives the
\* error of an expression that fails; an "eval" fault makes the evaluation
\* raise with that text
Benign == {NoFault} \cup {Fault("message", k) : k \in 2..Len(Messages)}

ExprFaults == Benign \cup {Fault("eval", k) : k \in 1..Len(Messages)}

HelpArgs_all == {HelpArgs(t) : t \in {Absent, "invalid"} \cup {Topics[i] : i \in 1..Len(Topics)}}

\* the requests call_tool is given: every tool name, and one that is none
ToolScanArgs == {a \in ScanArgs : a.start_time \in {AbsentTime, 1} /\ a.end_time \in {AbsentTime, 2}}

ToolCalls ==
    {<<"get_signal_list", a, f>> : a \in ListArgs, f \in ListFaults}
    \cup {<<"get_signal_transitions", a, f>> : a \in ToolScanArgs, f \in ScanFaults}
    \cup {<<"get_waveform_length", a, f>> : a \in LengthArgs, f \in LengthFaults}
    \cup {<<"execute_wal_expression", a, f>> : a \in ExprArgs_all, f \in ExprFaults}
    \cup {<<"get_wal_help", a, NoFault>> : a \in HelpArgs_all}
    \cup {<<"get_wal_examples", a, NoFault>> : a \in LengthArgs}
    \cup {<<"unknown_tool", a, NoFault>> : a \in LengthArgs}

\* ------------------------------------------------------------------- actions
\* a direct call of _load_waveform(p)
LoadWaveform ==
    /\ call = Idle
    /\ \E p \in Paths :
        LET ld == load_waveform(waveform_cache, heap, p)
            g == Ghost(ld.loads, 0, ld.handle, FALSE, FALSE)
        IN Do(Request("_load_waveform", TRUE, [NoArgs EXCEPT !.waveform_file = p], NoFault),
              Result(ld.cache, ld.heap,
                     IF ld.raised THEN Raised("load failed", g) ELSE Returned(<<>>, g)))

\* a direct call of _get_signal_list(args), with a fault of F
GetSignalList(F) ==
    /\ call = Idle
    /\ \E args \in ListArgs, fault \in ListFaults \cap F :
        LET r == get_signal_list(waveform_cache, heap, args, fault) IN
        /\ Reaches(fault, r)
        /\ Do(Request("get_signal_list", TRUE, args, fault), r)

\* a direct call of _get_signal_transitions(args), with a fault of F
GetSignalTransitions(F) ==
    /\ call = Idle
    /\ \E args \in ScanArgs, fault \in ScanFaults \cap F :
        LET r == get_signal_transitions(data, waveform_cache, heap, args, fault) IN
        /\ Reaches(fault, r)
        /\ Do(Request("get_signal_transitions", TRUE, args, fault), r)

\* a direct call of _get_waveform_length(args), with a fault of F
GetWaveformLength(F) ==
    /\ call = Idle
    /\ \E args \in LengthArgs, fault \in LengthFaults \cap F :
        LET r == get_waveform_length(waveform_cache, heap, args, fault) IN
        /\ Reaches(fault, r)
        /\ Do(Request("get_waveform_length", TRUE, args, fault), r)

\* a direct call of _execute_wal_expression(args), with a fault of F
ExecuteWalExpression(F) ==
    /\ call = Idle
    /\ \E args \in ExprArgs_all, fault \in ExprFaults \cap F :
        LET r == execute_wal_expression(data, waveform_cache, heap, args, fault) IN
        /\ Reaches(fault, r)
        /\ Do(Request("execute_wal_expression", TRUE, args, fault), r)

\* a direct call of _get_wal_help(args)
GetWalHelp ==
    /\ call = Idle
    /\ \E args \in HelpArgs_all :
        Do(Request("get_wal_help", TRUE, args, NoFault),
           get_wal_help(waveform_cache, heap, args))

\* a direct call of _get_wal_examples(args)
GetWalExamples ==
    /\ call = Idle
    /\ \E args \in LengthArgs :
        Do(Request("get_wal_examples", TRUE, args, NoFault),
           get_wal_examples(waveform_cache, heap, args))

\* a call of call_tool(tool_name, arguments), with a fault of F
CallTool(F) ==
    /\ call = Idle
    /\ \E c \in {t \in ToolCalls : t[3] \in F} :
        LET r == call_tool(data, waveform_cache, heap, c[1], c[2], c[3]) IN
        /\ Reaches(c[3], r)
        /\ Do(Request(c[1], FALSE, c[2], c[3]), r)

\* ------------------------------------------------- the requests on the loop
\* call_tool is a coroutine: every request the server reads becomes a task of
\* the one event loop.  A task runs statement by statement; the loop gives
\* the turn to another task only where the running one suspends.
Tasks == {"A", "B"}
NoTask == "none"

\* what a task was asked: the tool and its arguments
TaskRequest(tool, waveform_file, signal_name, start_time, end_time, expression) ==
    [tool |-> tool, waveform_file |-> waveform_file, signal_name |-> signal_name,
     start_time |-> start_time, end_time |-> end_time, expression |-> expression]

NoRequest == TaskRequest("none", Absent, Absent, 0, 0, Absent)

\* a task: the statement it is at (pc), its request and its local variables.
\* container is the local of _load_waveform, handle the handler's container.
\* missed: the path had no cache entry when the request arrived; loads: the
\* calls of the external loader it made; touched: it has moved or read its
\* container; rank: its place among the tasks that have finished.
IdleTask ==
    [pc |-> "idle", req |-> NoRequest, missed |-> FALSE, container |-> NoHandle,
     handle |-> NoHandle, loads |-> 0, raised |-> FALSE, found |-> FALSE,
     actual_end_time |-> 0, current_time |-> 0, prev_value |-> 0,
     transitions |-> <<>>, steps |-> 0, value |-> Value("none", <<>>),
     touched |-> FALSE,
     rank |-> 0]

\* the requests the tasks carry
TaskRequests ==
    {TaskRequest("get_signal_transitions", CounterFile, "tb.clk", s, e, Absent)
        : s \in {0, 1}, e \in {0, 2}}
    \cup {TaskRequest("get_signal_transitions", p, "tb.clk", 0, 0, Absent)
            : p \in {EmptyFile, AliasFile, MissingFile}}
    \cup {TaskRequest("execute_wal_expression", CounterFile, Absent, 0, 0, ClkHighCount)}

\* the mutant: the loader suspends the task while the file is being read
Yields_while_loading(pc) == pc = "load"

\* the mutant: the scan loop suspends the task after every step
Yields_while_stepping(pc) == pc = "step"

\* whether the statement at pc suspends the task: no statement of a handler or
\* of _load_waveform does (load, step, signal_value and eval are plain calls;
\* the one await is on _load_waveform, a coroutine that runs to its return)
Yields(pc) == FALSE

Init ==
    /\ waveform_cache = [p \in Spellings |-> NoHandle]
    /\ heap = [h \in {} |-> NewContainer(Absent)]
    /\ data \in [1..LenData -> 0..1]
    /\ call = Idle
    /\ pre = [cache |-> waveform_cache, heap |-> heap, failed |-> {}]
    /\ out = Returned(<<>>, Ghost(0, 0, NoHandle, FALSE, FALSE))
    /\ failed = {}
    /\ tasks = [t \in Tasks |-> IdleTask]
    /\ running = NoTask

AllFaults == ListFaults \cup ScanFaults \cup LengthFaults \cup ExprFaults

\* the server on the library as it behaves: no call but load raises
Next ==
    \/ LoadWaveform
    \/ GetSignalList(Benign)
    \/ GetSignalTransitions(Benign)
    \/ GetWaveformLength(Benign)
    \/ ExecuteWalExpression(Benign)
    \/ GetWalHelp
    \/ GetWalExamples
    \/ CallTool(Benign)
    \/ Deliver

Spec == Init /\ [][Next]_vars

\* the server on a library any call of which may raise
FaultNext ==
    \/ LoadWaveform
    \/ GetSignalList(AllFaults)
    \/ GetSignalTransitions(AllFaults)
    \/ GetWaveformLength(AllFaults)
    \/ ExecuteWalExpression(AllFaults)
    \/ GetWalHelp
    \/ GetWalExamples
    \/ CallTool(AllFaults)
    \/ Deliver

FaultSpec == Init /\ [][FaultNext]_vars

\* ------------------------------------------------ the tasks, by statement
\* task t is at statement pc and may take the next turn
Runs(t, pc) == tasks[t].pc = pc /\ running \in {NoTask, t}

\* task t has executed the statement at pc and is now as in task; it keeps
\* the loop unless it has finished or the statement suspended it
Advance(t, pc, task) ==
    LET rank == 1 + Cardinality({u \in Tasks : tasks[u].pc = "done"})
        next == IF task.pc = "done" THEN [task EXCEPT !.rank = rank] ELSE task
    IN
    /\ tasks' = [tasks EXCEPT ![t] = next]
    /\ running' = IF task.pc = "done" \/ Yields(pc) THEN NoTask ELSE t
    /\ UNCHANGED <<data, call, pre, out, failed>>

\* the server reads a request and creates its task
Arrive(t) ==
    /\ running = NoTask
    /\ tasks[t].pc = "idle"
    /\ \E req \in TaskRequests :
        tasks' = [tasks EXCEPT ![t] =
                    [IdleTask EXCEPT !.pc = "check", !.req = req,
                        !.missed = waveform_cache[req.waveform_file] = NoHandle]]
    /\ UNCHANGED <<waveform_cache, heap, data, call, pre, out, failed, running>>

\* if waveform_file not in _waveform_cache
Check(t) ==
    /\ Runs(t, "check")
    /\ Advance(t, "check",
               [tasks[t] EXCEPT !.pc = IF waveform_cache[tasks[t].req.waveform_file] = NoHandle
                                       THEN "load" ELSE "return"])
    /\ UNCHANGED <<waveform_cache, heap>>

\* container = TraceContainer(); container.load(waveform_file)
Load(t) ==
    /\ Runs(t, "load")
    /\ LET file == FileOf(tasks[t].req.waveform_file) IN
       IF file \in Loadable
       THEN /\ heap' = Allocate(heap, file)
            /\ Advance(t, "load", [tasks[t] EXCEPT !.pc = "store", !.loads = @ + 1,
                                       !.container = NewHandle(heap, file)])
       ELSE /\ heap' = heap
            /\ Advance(t, "load", [tasks[t] EXCEPT !.pc = "done", !.loads = @ + 1,
                                       !.raised = TRUE])
    /\ UNCHANGED waveform_cache

\* _waveform_cache[waveform_file] = container
Store(t) ==
    /\ Runs(t, "store")
    /\ waveform_cache' = [waveform_cache EXCEPT ![tasks[t].req.waveform_file] =
                            tasks[t].container]
    /\ Advance(t, "store", [tasks[t] EXCEPT !.pc = "return"])
    /\ UNCHANGED heap

\* return _waveform_cache[waveform_file], to the handler's container
Return(t) ==
    /\ Runs(t, "return")
    /\ Advance(t, "return",
               [tasks[t] EXCEPT !.handle = waveform_cache[tasks[t].req.waveform_file],
                                !.pc = IF tasks[t].req.tool = "get_signal_transitions"
                                       THEN "lookup" ELSE "eval"])
    /\ UNCHANGED <<waveform_cache, heap>>

\* if signal_name not in container.signals: return; else the width, and
\* actual_end_time = end_time
Lookup(t) ==
    /\ Runs(t, "lookup")
    /\ LET task == tasks[t]
           found == IsSignal(heap[task.handle].file, task.req.signal_name)
       IN Advance(t, "lookup",
                  [task EXCEPT !.found = found,
                               !.actual_end_time = task.req.end_time,
                               !.pc = IF ~found THEN "done"
                                      ELSE IF task.req.end_time = 0 THEN "length"
                                      ELSE "position"])
    /\ UNCHANGED <<waveform_cache, heap>>

\* waveform_length = evaluator.eval("(length (find true))");
\* actual_end_time = waveform_length - 1: find visits the container's time
\* steps and restores its index
Length(t) ==
    /\ Runs(t, "length")
    /\ LET task == tasks[t] IN
       Advance(t, "length",
               [task EXCEPT !.actual_end_time = ActualEnd(heap[task.handle].file, 0),
                            !.touched = TRUE, !.pc = "position"])
    /\ UNCHANGED <<waveform_cache, heap>>

\* container.step(start_time)
StepToStart(t) ==
    /\ Runs(t, "position")
    /\ LET task == tasks[t] IN
       /\ heap' = [heap EXCEPT ![task.handle].index =
                        StepIndex(heap[task.handle].file, @, task.req.start_time)]
       /\ Advance(t, "position", [task EXCEPT !.touched = TRUE, !.pc = "initial"])
    /\ UNCHANGED waveform_cache

\* prev_value = container.signal_value(signal_name); transitions = [];
\* current_time = start_time; and the first test of the loop's condition
Initial(t) ==
    /\ Runs(t, "initial")
    /\ LET task == tasks[t]
           c == heap[task.handle]
       IN Advance(t, "initial",
                  [task EXCEPT !.prev_value = TraceValue(data, c.file, task.req.signal_name, c.index),
                               !.current_time = task.req.start_time,
                               !.pc = IF task.req.start_time < task.actual_end_time
                                      THEN "step" ELSE "done"])
    /\ UNCHANGED <<waveform_cache, heap>>

\* one turn of the loop: container.step(1); current_time += 1; curr_value =
\* container.signal_value(signal_name); the comparison; and the next test of
\* the loop's condition
StepOnce(t) ==
    /\ Runs(t, "step")
    /\ LET task == tasks[t]
           file == heap[task.handle].file
           index == StepIndex(file, heap[task.handle].index, 1)
           current_time == task.current_time + 1
           curr_value == TraceValue(data, file, task.req.signal_name, index)
           transitions ==
               IF task.prev_value # curr_value
               THEN Append(task.transitions,
                           Line("  Time {}: {} -> {}",
                                <<current_time, task.prev_value, curr_value>>))
               ELSE task.transitions
       IN
       /\ heap' = [heap EXCEPT ![task.handle].index = index]
       /\ Advance(t, "step",
                  [task EXCEPT !.current_time = current_time, !.prev_value = curr_value,
                               !.transitions = transitions, !.steps = @ + 1,
                               !.pc = IF current_time < task.actual_end_time
                                      THEN "step" ELSE "done"])
    /\ UNCHANGED waveform_cache

\* result = evaluator.eval(read_wal_sexpr(expression))
Eval(t) ==
    /\ Runs(t, "eval")
    /\ LET task == tasks[t]
           e == Evaluate(data, heap[task.handle].file, task.req.expression, NoFault)
       IN Advance(t, "eval",
                  [task EXCEPT !.value = e.value, !.raised = e.raised, !.touched = TRUE,
                               !.pc = "done"])
    /\ UNCHANGED <<waveform_cache, heap>>

\* the response is written; the task is gone
Finish(t) ==
    /\ running = NoTask
    /\ tasks[t].pc = "done"
    /\ tasks' = [u \in Tasks |->
                    IF u = t THEN IdleTask
                    ELSE IF tasks[u].rank > tasks[t].rank
                    THEN [tasks[u] EXCEPT !.rank = @ - 1]
                    ELSE tasks[u]]
    /\ UNCHANGED <<waveform_cache, heap, data, call, pre, out, failed, running>>

\* the values of top.data play no part in the tasks' requests
TaskInit == Init /\ data = [i \in 1..LenData |-> 0]

TaskNext ==
    \E t \in Tasks :
        \/ Arrive(t)
        \/ Check(t)
        \/ Load(t)
        \/ Store(t)
        \/ Return(t)
        \/ Lookup(t)
        \/ Length(t)
        \/ StepToStart(t)
        \/ Initial(t)
        \/ StepOnce(t)
        \/ Eval(t)
        \/ Finish(t)

\* the server as the event loop runs it: requests in flight together
TaskSpec == TaskInit /\ [][TaskNext]_vars

\* ================================================================ properties
\* what the checked statements read off the last request and its report
ReqPath == call.args.waveform_file
ReqSignal == call.args.signal_name
ReqStart == GetTime(call.args.start_time)
ReqEnd == GetTime(call.args.end_time)
ReqPattern == IF call.args.pattern = Absent THEN "" ELSE call.args.pattern

\* the index of the request's container when the request began
PreIndex == IF out.loads = 1 THEN 0 ELSE pre.heap[out.handle].index

IsTimeLine(l) == l.fmt = "  Time {}: {} -> {}"
IsSignalLine(l) == l.fmt = "  {} [{} {}]"

\* the report's lines that name an error
ErrorFormats ==
    {"Error: {}", "Error: Signal '{}' not found in {}",
     "  Error during transition detection: {}", "Error getting waveform length: {}"}

\* a scan request on a trace that holds the requested signal
ScanOfSignal ==
    /\ call.tool = "get_signal_transitions"
    /\ ReqPath \in Loadable
    /\ ReqSignal # Absent
    /\ IsSignal(ReqPath, ReqSignal)

\* a scan that reported an initial value
ScanReported ==
    /\ ScanOfSignal
    /\ ~out.raised
    /\ Len(out.text) >= 3
    /\ out.text[3].fmt = "  Initial value at time {}: {}"

\* the end the claims call effective_end
EffectiveEnd == IF ReqEnd = 0 THEN TraceLength(ReqPath) - 1 ELSE ReqEnd

\* the handler of the last request applied to the state the request found
HandlerOnPre ==
    IF call.tool = "get_signal_list"
    THEN get_signal_list(pre.cache, pre.heap, call.args, call.fault)
    ELSE IF call.tool = "get_signal_transitions"
    THEN get_signal_transitions(data, pre.cache, pre.heap, call.args, call.fault)
    ELSE IF call.tool = "get_waveform_length"
    THEN get_waveform_length(pre.cache, pre.heap, call.args, call.fault)
    ELSE IF call.tool = "execute_wal_expression"
    THEN execute_wal_expression(data, pre.cache, pre.heap, call.args, call.fault)
    ELSE IF call.tool = "get_wal_help" THEN get_wal_help(pre.cache, pre.heap, call.args)
    ELSE get_wal_examples(pre.cache, pre.heap, call.args)

\* ---------------------------------------------------------------------- C1
\* C1: once a path is in the cache, no request replaces or removes its
\* entry, and _load_waveform of that path returns the stored handle, calls
\* the loader no more, creates no container and leaves the cache as it was.
C1_CachedHandleIsKept ==
    /\ \A q \in Paths : pre.cache[q] # NoHandle => waveform_cache[q] = pre.cache[q]
    /\ (call.tool = "_load_waveform" /\ pre.cache[ReqPath] # NoHandle) =>
            /\ ~out.raised
            /\ out.handle = pre.cache[ReqPath]
            /\ out.loads = 0
            /\ waveform_cache = pre.cache
            /\ heap = pre.heap

\* a second _load_waveform of a cached path, with another path cached too
C1_Witness ==
    /\ call.tool = "_load_waveform"
    /\ pre.cache[ReqPath] # NoHandle
    /\ out.handle = pre.cache[ReqPath]
    /\ \E q \in Paths \ {ReqPath} : pre.cache[q] # NoHandle

\* ---------------------------------------------------------------------- C2
\* C2: when the loader fails for the path, _load_waveform raises, the cache
\* is what it was and holds no entry for the path, and the loader was called
\* (so it is called at every later request too).
C2_FailedLoadLeavesCache ==
    (call.tool = "_load_waveform" /\ ReqPath \notin Loadable) =>
        /\ out.raised
        /\ out.loads = 1
        /\ waveform_cache = pre.cache
        /\ waveform_cache[ReqPath] = NoHandle
        /\ heap = pre.heap

\* a later _load_waveform of a path whose load had failed before
C2_Witness ==
    /\ call.tool = "_load_waveform"
    /\ ReqPath \in pre.failed
    /\ out.raised
    /\ out.loads = 1
    /\ \E q \in Paths : waveform_cache[q] # NoHandle

\* ---------------------------------------------------------------------- C3
\* C3: call_tool never raises and returns a report: "Unknown tool: <name>"
\* for a name that has no handler, and a report that starts with "Error:"
\* when the handler raised.
KnownTools ==
    {"get_signal_list", "get_signal_transitions", "get_waveform_length",
     "execute_wal_expression", "get_wal_help", "get_wal_examples"}

C3_CallToolNeverRaises ==
    (call # Idle /\ ~call.direct) =>
        /\ ~out.raised
        /\ Len(out.text) >= 1
        /\ call.tool \notin KnownTools =>
                out.text = <<Line("Unknown tool: {}", <<call.tool>>)>>
        /\ (call.tool \in KnownTools /\ HandlerOnPre.out.raised) =>
                out.text = <<Line("Error: {}", <<HandlerOnPre.out.exc>>)>>

\* call_tool has turned a failing signal_width into an "Error:" report
C3_Witness ==
    /\ call # Idle
    /\ ~call.direct
    /\ call.tool = "get_signal_list"
    /\ HandlerOnPre.out.raised
    /\ HandlerOnPre.out.exc = "width failed"
    /\ out.text[1].fmt = "Error: {}"

\* ---------------------------------------------------------------------- C4
\* C4: called directly on a path the loader fails for, the three handlers
\* return a report that mentions an error instead of raising.
C4_HandlersReportLoadFailure ==
    (/\ call.direct
     /\ call.tool \in {"get_signal_list", "get_waveform_length", "get_signal_transitions"}
     /\ ReqPath = MissingFile
     /\ call.tool = "get_signal_transitions" => ReqSignal # Absent) =>
        /\ ~out.raised
        /\ \E i \in 1..Len(out.text) : out.text[i].fmt \in ErrorFormats

\* ---------------------------------------------------------------------- C5
\* C5: whatever was done on the handle before, the initial value a scan
\* reports for start_time s (a time of the trace) is the signal's value at
\* absolute time s.
C5_InitialValueIsAtStart ==
    (ScanReported /\ ReqStart < TraceLength(ReqPath)) =>
        out.text[3] = Line("  Initial value at time {}: {}",
                           <<ReqStart, TraceValue(data, ReqPath, ReqSignal, ReqStart)>>)

\* ---------------------------------------------------------------------- C6
\* C6: a scan that begins with the index at 0 and meets no failure (no call
\* raises, no step leaves the trace) lists, in increasing order of t, a line
\* (t, v(t-1), v(t)) for exactly the times t, start_time < t <= effective
\* end, at which v(t) differs from v(t-1).
TimeLines == SelectSeq(out.text, IsTimeLine)

Changes ==
    {t \in (ReqStart + 1)..EffectiveEnd :
        TraceValue(data, ReqPath, ReqSignal, t) # TraceValue(data, ReqPath, ReqSignal, t - 1)}

C6_TransitionsAreTheChanges ==
    (ScanReported /\ PreIndex = 0 /\ ~out.hit /\ ~out.stuck) =>
        /\ \A i \in 1..(Len(TimeLines) - 1) : TimeLines[i].val[1] < TimeLines[i + 1].val[1]
        /\ {TimeLines[i].val : i \in 1..Len(TimeLines)}
             = {<<t, TraceValue(data, ReqPath, ReqSignal, t - 1),
                     TraceValue(data, ReqPath, ReqSignal, t)>> : t \in Changes}

\* such a scan over at least two steps, one that changed the value and one
\* that did not
C6_Witness ==
    /\ ScanReported /\ PreIndex = 0 /\ ~out.hit /\ ~out.stuck
    /\ EffectiveEnd - ReqStart >= 2
    /\ Len(TimeLines) >= 1
    /\ Len(TimeLines) < EffectiveEnd - ReqStart

\* ---------------------------------------------------------------------- C7
\* C7: with end_time = 0, a start_time <= L - 1 and no call raising, the scan
\* reports the range "start_time to L-1" and L - 1 - start_time steps checked.
C7_UnspecifiedEndIsLastStep ==
    (ScanOfSignal /\ ReqEnd = 0 /\ ReqStart <= TraceLength(ReqPath) - 1 /\ ~out.hit) =>
        /\ ~out.raised
        /\ Len(out.text) >= 2
        /\ out.text[Len(out.text) - 1]
             = Line("Time range analyzed: {} to {}", <<ReqStart, TraceLength(ReqPath) - 1>>)
        /\ out.text[Len(out.text)]
             = Line("Total time steps checked: {}", <<TraceLength(ReqPath) - 1 - ReqStart>>)

\* such a scan from a start_time after 0 on a handle whose index had moved
C7_Witness ==
    /\ ScanOfSignal /\ ReqEnd = 0 /\ ~out.hit
    /\ ReqStart >= 1 /\ ReqStart < TraceLength(ReqPath) - 1
    /\ out.loads = 0 /\ PreIndex > 0
    /\ out.text[Len(out.text)].fmt = "Total time steps checked: {}"

\* ---------------------------------------------------------------------- C8
\* C8: a scan whose non-zero end_time is smaller than start_time makes no
\* step(1) call, lists no transition, reports the range "start_time to
\* end_time" and is a normal report, not an error.
C8_BackwardRangeIsEmpty ==
    (ScanOfSignal /\ ReqEnd # 0 /\ ReqEnd < ReqStart) =>
        /\ ~out.raised
        /\ out.steps = 0
        /\ TimeLines = <<>>
        /\ \E i \in 1..Len(out.text) : out.text[i] = Line("No transitions detected in time range.", <<>>)
        /\ \E i \in 1..Len(out.text) :
                out.text[i] = Line("Time range analyzed: {} to {}", <<ReqStart, ReqEnd>>)
        /\ \A i \in 1..Len(out.text) : out.text[i].fmt \notin ErrorFormats

\* a scan of the range 3 to 1
C8_Witness ==
    /\ ScanOfSignal /\ ReqStart = 3 /\ ReqEnd = 1
    /\ \E i \in 1..Len(out.text) : out.text[i] = Line("Time range analyzed: {} to {}", <<3, 1>>)

\* ---------------------------------------------------------------------- C9
\* C9: a scan for a name the trace does not hold returns the "not found"
\* report with that name, makes no step, and leaves the handle's index where
\* it was.
C9_UnknownSignalMovesNothing ==
    (/\ call.tool = "get_signal_transitions"
     /\ ReqPath \in Loadable
     /\ ReqSignal # Absent
     /\ ~IsSignal(ReqPath, ReqSignal)) =>
        /\ out.text = <<Line("Error: Signal '{}' not found in {}", <<ReqSignal, ReqPath>>)>>
        /\ ~out.raised
        /\ out.steps = 0
        /\ heap[out.handle].index = PreIndex

\* such a request, with a start_time, on a handle whose index had moved
C9_Witness ==
    /\ call.tool = "get_signal_transitions"
    /\ ReqPath \in Loadable
    /\ ReqSignal = "nonexistent"
    /\ ReqStart >= 1
    /\ out.loads = 0 /\ PreIndex > 0
    /\ out.text[1].fmt = "Error: Signal '{}' not found in {}"

\* --------------------------------------------------------------------- C10
\* C10: with no pattern the report lists every signal of the trace in the
\* trace's order; with a pattern that compiles it lists exactly the signals
\* the pattern matches by search, in that order.
ListedNames ==
    LET ls == SelectSeq(out.text, IsSignalLine) IN [i \in 1..Len(ls) |-> ls[i].val[1]]

Position(file, name) == CHOOSE i \in 1..Len(TraceSignals(file)) : TraceSignals(file)[i] = name

C10_ListIsTheMatchingSubsequence ==
    (/\ call.tool = "get_signal_list"
     /\ ReqPath \in Loadable
     /\ ReqPattern = "" \/ Compile(Chars(ReqPattern), 1).ok) =>
        /\ ~out.raised
        /\ ReqPattern = "" => ListedNames = TraceSignals(ReqPath)
        /\ {ListedNames[i] : i \in 1..Len(ListedNames)}
             = {TraceSignals(ReqPath)[i] : i \in
                    {j \in 1..Len(TraceSignals(ReqPath)) :
                        ReqPattern = "" \/ Search(Compile(Chars(ReqPattern), 1).items,
                                                  TraceSignals(ReqPath)[j])}}
        /\ \A i \in 1..(Len(ListedNames) - 1) :
                Position(ReqPath, ListedNames[i]) < Position(ReqPath, ListedNames[i + 1])

\* a pattern that keeps the first and the third signal and drops the second
C10_Witness ==
    /\ call.tool = "get_signal_list"
    /\ ReqPath = CounterFile
    /\ ReqPattern = ".c"
    /\ ListedNames = <<"tb.clk", "tb.dut.counter">>

\* --------------------------------------------------------------------- C11
\* C11: for a pattern that does not compile, _get_signal_list on a loaded
\* trace raises nothing and returns a report that quotes the pattern and the
\* compiler's message and lists no signal.
BadPattern ==
    /\ call.tool = "get_signal_list"
    /\ ReqPath \in Loadable
    /\ ReqPattern # ""
    /\ ~Compile(Chars(ReqPattern), 1).ok

C11_BadPatternIsReported ==
    BadPattern =>
        /\ ~out.raised
        /\ out.text # <<>>
        /\ \E i \in 1..Len(out.text) :
                /\ \E j \in 1..Len(out.text[i].val) : out.text[i].val[j] = ReqPattern
                /\ \E j \in 1..Len(out.text[i].val) :
                        out.text[i].val[j] = Compile(Chars(ReqPattern), 1).msg
        /\ ListedNames = <<>>

\* the pattern that ends in a backslash, on a trace that was cached before
C11_Witness ==
    /\ BadPattern
    /\ call.direct
    /\ ReqPattern = "tb\\"
    /\ out.loads = 0
    /\ Len(out.text) = 3

\* --------------------------------------------------------------------- C12
\* C12: a listing with no pattern reports the same descriptors (names, order,
\* widths) as the listing that loaded the trace did, whatever requests were
\* served in between, and as a listing repeated at once does.
Descriptors(text) == SelectSeq(text, IsSignalLine)

\* the listing with no pattern of the path, made in the given state
Listing(cache, hp, path) ==
    get_signal_list(cache, hp, Args(path, Absent, AbsentTime, AbsentTime, Absent), NoFault).out

FirstListing(path) ==
    Listing([q \in Paths |-> NoHandle], [h \in {} |-> NewContainer(Absent)], path)

PlainListing ==
    /\ call.tool = "get_signal_list"
    /\ ReqPath \in Loadable
    /\ ReqPattern = ""

Evaluated ==
    /\ call.tool = "execute_wal_expression"
    /\ ~out.raised
    /\ Len(out.text) >= 5
    /\ out.text[4].fmt = "Result: {}"

\* the value the evaluation of the last request returned
ExprResult == Evaluate(data, ReqPath, call.args.expression, call.fault).value

SummaryFormats == {"Result length: {}", "First few elements:", "  [{}]: {}", "  ... and {} more"}

C13_LongResultIsSummarized ==
    Evaluated =>
        IF ExprResult.type = "list" /\ Len(ExprResult.items) > 5
        THEN /\ \E i \in 1..Len(out.text) :
                    out.text[i] = Line("Result length: {}", <<Len(ExprResult.items)>>)
             /\ SelectSeq(out.text, LAMBDA l : l.fmt = "  [{}]: {}")
                    = [i \in 1..5 |-> Line("  [{}]: {}", <<i - 1, ExprResult.items[i]>>)]
             /\ \A i \in 1..Len(out.text) : out.text[i] # Line("Result: {}", <<ExprResult>>)
        ELSE /\ out.text[4] = Line("Result: {}", <<ExprResult>>)
             /\ \A i \in 1..Len(out.text) : out.text[i].fmt \notin SummaryFormats

\* --------------------------------------------------------------------- C14
\* C14: the diagnostic of a failed parse or evaluation carries exactly one
\* hint block, chosen by the lowered message: the missing-name hint if it
\* contains "undefined", else the type-mismatch hint if it contains
\* "argument must be a list", else the generic hint.
Diagnosed ==
    /\ call.tool = "execute_wal_expression"
    /\ ~out.raised
    /\ Len(out.text) >= 5
    /\ out.text[4].fmt = "Execution Error: {}"

\* str(e) of the last request's failure
ErrorMessage == out.text[4].val[1]

HintHeads ==
    {"Variable/function not found. Try:", "Function expects a list. Try:",
     "Common WAL patterns to try:"}

\* the heads of the hint blocks of the report, in the report's order
Hints == SelectSeq([i \in 1..Len(out.text) |-> out.text[i].fmt], LAMBDA f : f \in HintHeads)

C14_OneHintBlock ==
    Diagnosed =>
        Hints = <<IF InLower("undefined", ErrorMessage)
                  THEN "Variable/function not found. Try:"
                  ELSE IF InLower("argument must be a list", ErrorMessage)
                  THEN "Function expects a list. Try:"
                  ELSE "Common WAL patterns to try:">>

\* --------------------------------------------------------------------- C15
\* C15: _get_wal_examples puts every signal name in at most one of the lists
\* clock_signals, reset_signals, counter_signals, and a name that contains
\* "clk" is not the signal the reset or the counter section is written for.
ExamplesReported ==
    /\ call.tool = "get_wal_examples"
    /\ ReqPath \in Loadable
    /\ ~out.raised
    /\ Len(out.text) >= 1
    /\ out.text[1].fmt = "WAL Examples for {}"

\* the lists of lines 664-666 that hold the name
Categories(name) ==
    (IF IsClock(name) THEN {"clock"} ELSE {})
    \cup (IF IsReset(name) THEN {"reset"} ELSE {})
    \cup (IF IsCounter(name) THEN {"counter"} ELSE {})

C15_OneCategoryPerSignal ==
    ExamplesReported =>
        \A i \in 1..Len(TraceSignals(ReqPath)) :
            LET name == TraceSignals(ReqPath)[i] IN
            /\ Cardinality(Categories(name)) <= 1
            /\ IsClock(name) =>
                    \A j \in 1..Len(out.text) :
                        /\ out.text[j] # Line("RESET ANALYSIS (using {}):", <<name>>)
                        /\ out.text[j] # Line("COUNTER ANALYSIS (using {}):", <<name>>)

\* --------------------------------------------------------------------- C17
\* a scan that reported its range, from a start_time after the effective end
EmptyRange ==
    /\ ScanReported
    /\ ReqStart > EffectiveEnd
    /\ out.text[Len(out.text)].fmt = "Total time steps checked: {}"

\* C17, as stated: such a scan lists no transition and reports as steps
\* checked the signed difference effective_end - start_time.
C17_StepsCheckedIsDifference ==
    EmptyRange =>
        /\ TimeLines = <<>>
        /\ out.text[Len(out.text)]
             = Line("Total time steps checked: {}", <<EffectiveEnd - ReqStart>>)

\* C17, amended: such a scan makes no step(1) call, lists no transition,
\* reports the range "start_time to effective_end" and 0 steps checked
\* (current_time - start_time, with current_time still start_time).
C17_StepsCheckedIsZero ==
    EmptyRange =>
        /\ out.steps = 0
        /\ TimeLines = <<>>
        /\ out.text[Len(out.text) - 1]
             = Line("Time range analyzed: {} to {}", <<ReqStart, EffectiveEnd>>)
        /\ out.text[Len(out.text)] = Line("Total time steps checked: {}", <<0>>)

\* a scan with no end_time from a start_time after the trace's last step
C17_Witness ==
    /\ EmptyRange
    /\ ReqEnd = 0
    /\ ReqStart > TraceLength(ReqPath) - 1
    /\ out.text[Len(out.text)] = Line("Total time steps checked: {}", <<0>>)

\* --------------------------------------------------------------------- C18
\* C18: when the k-th step(1) of the loop, or the read after it, raises, the
\* scan makes no further step, raises nothing and returns a report with no
\* error text that holds the initial value and exactly the transitions of
\* the k - 1 iterations before.
LoopFailed ==
    /\ ScanOfSignal
    /\ call.fault.at \in {"step", "read"}
    /\ out.hit

\* the transition lines of the same scan cut after k - 1 iterations, with
\* no failure
LinesBefore(k) ==
    IF k = 1 THEN <<>>
    ELSE SelectSeq(get_signal_transitions(data, pre.cache, pre.heap,
                        [call.args EXCEPT !.end_time = ReqStart + k - 1], NoFault).out.text,
                   IsTimeLine)

C18_LoopFailureEndsScan ==
    LoopFailed =>
        /\ ~out.raised
        /\ out.steps = call.fault.k
        /\ ScanReported
        /\ \A i \in 1..Len(out.text) : out.text[i].fmt \notin ErrorFormats
        /\ TimeLines = LinesBefore(call.fault.k)
        /\ out.text[Len(out.text)].fmt = "Total time steps checked: {}"

\* the second step of a scan raises after the first recorded a transition
C18_Witness ==
    /\ LoopFailed
    /\ call.fault = Fault("step", 2)
    /\ Len(TimeLines) = 1
    /\ EffectiveEnd - ReqStart >= 2

\* ----------------------------------------------------------------------
\* C16: the cache is keyed by the normalized path: two spellings of one
\* file's path never both have an entry, and two requests that have
\* finished on one file by any spellings hold one handle.
SameFile(p, q) == p # q /\ FileOf(p) = FileOf(q)

Served(t) == tasks[t].pc = "done" /\ tasks[t].handle # NoHandle

C16_OneEntryPerFile ==
    /\ \A p \in Spellings : \A q \in Spellings :
        SameFile(p, q) => ~(waveform_cache[p] # NoHandle /\ waveform_cache[q] # NoHandle)
    /\ \A t \in Tasks : \A u \in Tasks :
        (Served(t) /\ Served(u)
         /\ FileOf(tasks[t].req.waveform_file) = FileOf(tasks[u].req.waveform_file))
        => tasks[t].handle = tasks[u].handle

\* ----------------------------------------------------------------------
\* two finished requests that were in flight together for one path the
\* loader can read, each having arrived while the path had no entry
Together(t, u) ==
    /\ t # u
    /\ tasks[t].pc = "done" /\ tasks[u].pc = "done"
    /\ tasks[t].req.waveform_file = tasks[u].req.waveform_file
    /\ FileOf(tasks[t].req.waveform_file) \in Loadable
    /\ tasks[t].missed /\ tasks[u].missed

\* C19 as stated: two concurrent requests for one uncached path are not
\* deduplicated: each invokes the external loader, and the cache holds the
\* handle stored by the one that finished second.
C19_BothLoad ==
    \A t \in Tasks : \A u \in Tasks :
        Together(t, u) =>
            /\ tasks[t].loads = 1 /\ tasks[u].loads = 1
            /\ tasks[t].rank < tasks[u].rank =>
                    waveform_cache[tasks[u].req.waveform_file] = tasks[u].container

\* C19: two concurrent requests for one uncached path are served one after
\* the other: the one that runs first invokes the external loader and stores
\* the handle, the other finds the entry; the loader is invoked once and
\* both work on the one handle the cache holds.
C19_LoadedOnce ==
    \A t \in Tasks : \A u \in Tasks :
        Together(t, u) =>
            /\ tasks[t].loads + tasks[u].loads = 1
            /\ tasks[t].rank < tasks[u].rank => tasks[t].loads = 1
            /\ tasks[t].handle = tasks[u].handle
            /\ waveform_cache[tasks[t].req.waveform_file] = tasks[t].handle

C19_Witness ==
    \E t \in Tasks : \E u \in Tasks :
        Together(t, u) /\ tasks[t].rank < tasks[u].rank /\ tasks[u].loads = 0

\* ----------------------------------------------------------------------
\* the statements that move or read a container
TouchPcs == {"length", "position", "initial", "step", "eval"}

\* task u has moved or read its container and has such statements to come
InWindow(u) == tasks[u].touched /\ tasks[u].pc \in TouchPcs

\* this step is task t moving or reading its container
Touches(t) == tasks[t].pc \in TouchPcs /\ tasks'[t] # tasks[t]

\* C20: requests on one handle never interleave: while a request is between
\* its first and its last step or read on a handle, no other request steps
\* or reads that handle.
C20_NoInterleaving ==
    [][\A t \in Tasks : Touches(t) =>
            \A u \in Tasks \ {t} :
                ~(InWindow(u) /\ tasks[u].handle = tasks[t].handle)]_vars

\* a scan is inside its loop while another request for the same path waits
C20_Witness ==
    \E t \in Tasks : \E u \in Tasks \ {t} :
        /\ InWindow(u) /\ tasks[u].pc = "step" /\ tasks[u].steps >= 1
        /\ tasks[t].pc = "check"
        /\ tasks[t].req.waveform_file = tasks[u].req.waveform_file

\* ----------------------------------------------------------------------
\* the scans the claim is about: the signal is in the trace, and the call
\* that raises, if one does, is a step, a read or the length evaluation
ScanRan ==
    /\ ScanOfSignal
    /\ call.fault.at # "width"

\* max(0, effective_end - start_time)
StepBound == IF EffectiveEnd > ReqStart THEN EffectiveEnd - ReqStart ELSE 0

\* the line a scan's report ends with: the steps checked, or the error
LastLine == out.text[Len(out.text)]

\* C21: every scan terminates: whatever the trace holds, whatever start_time
\* and end_time are, and whether or not a step raises, the loop makes at most
\* max(0, effective_end - start_time) calls of step(1) and the handler
\* returns its report.
C21_ScanStepsAreBounded ==
    ScanRan =>
        /\ ~out.raised
        /\ out.steps <= StepBound
        /\ Len(out.text) >= 3
        /\ LastLine.fmt \in {"Total time steps checked: {}",
                             "  Error during transition detection: {}"}

\* a scan whose last step raises: it made every call the bound allows
C21_Witness ==
    /\ ScanRan
    /\ call.fault.at = "step" /\ out.hit
    /\ StepBound >= 2
    /\ out.steps = StepBound

\* ----------------------------------------------------------------------
\* the value the report gives as the initial one
InitialValue == out.text[3].val[2]

\* C22: in every scan result the transition lines chain: the previous value
\* of the first line is the reported initial value, and the previous value
\* of each later line is the new value of the line before it.
C22_TransitionsChain ==
    ScanReported =>
        /\ Len(TimeLines) >= 1 => TimeLines[1].val[2] = InitialValue
        /\ \A i \in 2..Len(TimeLines) : TimeLines[i].val[2] = TimeLines[i - 1].val[3]

\* a scan that listed two transitions, the value rising and then falling
C22_Witness ==
    /\ ScanReported
    /\ Len(TimeLines) >= 2
    /\ InitialValue = 0
    /\ TimeLines[1].val[3] = 1
    /\ TimeLines[2].val[3] = 0

====
